---- MODULE Spec2Model ----
(***************************************************************************)
(* Model of the lambdahandler router: route registration, path-template    *)
(* compilation, parameter extraction, request dispatch, CORS handling and  *)
(* response building.                                                      *)
(*                                                                         *)
(* Paths and templates are sequences of one-character strings, so that     *)
(* the regular expression built from a template can be interpreted         *)
(* character by character.  Header values, bodies and methods are strings. *)
(* A Go map is a function whose domain is the set of its keys; a nil map   *)
(* and an empty map are both the empty function <<>>.                      *)
(***************************************************************************)
EXTENDS Integers, Sequences, FiniteSets, TLC

VARIABLES routes, Origins, Methods, Headers, serving, last, calls, probe

vars == <<routes, Origins, Methods, Headers, serving, last, calls, probe>>

-----------------------------------------------------------------------------
(* Bounds and input sets                                                   *)

MaxRoutes == 2

\* Templates and paths of the matcher's own specification: every string of
\* at most MaxPathLen characters that starts with "/".
MaxPathLen == 4
TemplateAlphabet == {"/", "a", ":", "."}
PathAlphabet     == {"/", "a", "b"}

\* HandleRequest calls in flight at once in the specification of concurrent
\* serving.
MaxCalls == 2

\* Origins lists of isOriginAllowed's own specification: at most MaxOrigins
\* entries.
MaxOrigins == 2
OriginEntries == {"*", "https://example.com", "https://EXAMPLE.com",
                  "https://example.com/"}
ProbeOrigins  == {"", "*", "https://example.com", "https://EXAMPLE.com",
                  "https://evil.com"}

T_a       == <<"/", "a">>
T_usersId == <<"/", "u", "s", "e", "r", "s", "/", ":", "i", "d">>
P_users42 == <<"/", "u", "s", "e", "r", "s", "/", "4", "2">>

RouteTemplates == {T_a, T_usersId}
RequestPaths   == {T_a, P_users42}
RequestMethods == {"GET", "POST", "OPTIONS"}
OtherMethods   == {"OPTIONS"}

NoHeaders      == <<>>
RequestHeaders ==
    { NoHeaders,
      "origin" :> "https://evil.com",
      ("origin" :> "https://example.com")
         @@ ("access-control-request-method" :> "DELETE") }

\* What a handler can return: a value json.Marshal accepts, a value it
\* rejects (a channel), or a LambdaError.
HandlerResults ==
    { [kind |-> "value", data |-> "ok",   code |-> 0,   message |-> ""],
      [kind |-> "value", data |-> "chan", code |-> 0,   message |-> ""],
      [kind |-> "error", data |-> "nil",  code |-> 404, message |-> "not found"] }

\* Further errors a handler can return: the README's 500, and the zero code.
MoreHandlerResults ==
    HandlerResults \cup
    { [kind |-> "error", data |-> "nil", code |-> 500,
       message |-> "Something went wrong"],
      [kind |-> "error", data |-> "nil", code |-> 0, message |-> ""] }

Configs ==
    { [Origins |-> <<"*">>, Methods |-> <<"*">>, Headers |-> <<"*">>],
      [Origins |-> <<"https://example.com">>,
       Methods |-> <<"GET", "POST">>,
       Headers |-> <<"Content-Type", "Authorization">>] }

-----------------------------------------------------------------------------
(* Strings and maps                                                        *)

\* Go map lookup: the zero value "" when the key is missing.
MapGet(m, k) == IF k \in DOMAIN m THEN m[k] ELSE ""

\* The string spelled by a sequence of characters.
RECURSIVE Str(_)
Str(cs) == IF cs = <<>> THEN "" ELSE Head(cs) \o Str(Tail(cs))

\* strings.Join(elems, sep)
RECURSIVE Join(_, _)
Join(elems, sep) ==
    IF elems = <<>> THEN ""
    ELSE IF Len(elems) = 1 THEN elems[1]
    ELSE elems[1] \o sep \o Join(Tail(elems), sep)

-----------------------------------------------------------------------------
(* utils.go: buildPathPattern, extractParams                               *)

\* Length of the run of characters other than "/" that starts at cs[i].
RECURSIVE NonSlashRun(_, _)
NonSlashRun(cs, i) ==
    IF i > Len(cs) \/ cs[i] = "/" THEN 0 ELSE 1 + NonSlashRun(cs, i + 1)

\* One literal character of the regular expression source: "." is the
\* any-character metacharacter, the other characters of the alphabet stand
\* for themselves.
LitToken(c) ==
    IF c = "." THEN [kind |-> "any", ch |-> c, name |-> ""]
    ELSE [kind |-> "lit", ch |-> c, name |-> ""]

\* The replacement text `([^/]+)`: a capture group without a name.
GroupToken == [kind |-> "group", ch |-> "", name |-> ""]

\* pattern.ReplaceAllString(path, `([^/]+)`) for pattern `:([^/]+)`, read as
\* the regular expression it is compiled to: every ":" followed by at least
\* one non-"/" character is replaced, with the whole run, by a group.
RECURSIVE ReplaceAllParams(_, _)
ReplaceAllParams(path, i) ==
    IF i > Len(path) THEN <<>>
    ELSE IF path[i] = ":" /\ NonSlashRun(path, i + 1) > 0
         THEN <<GroupToken>>
              \o ReplaceAllParams(path, i + 1 + NonSlashRun(path, i + 1))
         ELSE <<LitToken(path[i])>> \o ReplaceAllParams(path, i + 1)

\* The compiled expression "^" + ... + "$" as its sequence of tokens.
buildPathPattern(path) == ReplaceAllParams(path, 1)

\* Anchored match of tokens ti.. against path positions pi..: whether the
\* rest of the path matches the rest of the pattern, and what the groups
\* capture.  A group is greedy: it takes the longest run that lets the rest
\* match.
RECURSIVE MatchFrom(_, _, _, _)
MatchFrom(pattern, ti, path, pi) ==
    IF ti > Len(pattern)
    THEN [ok |-> pi = Len(path) + 1, groups |-> <<>>]
    ELSE LET tok == pattern[ti] IN
         IF tok.kind = "group"
         THEN LET run  == NonSlashRun(path, pi)
                  good == { k \in 1..run :
                              MatchFrom(pattern, ti + 1, path, pi + k).ok }
              IN IF good = {} THEN [ok |-> FALSE, groups |-> <<>>]
                 ELSE LET k == CHOOSE x \in good : \A y \in good : y <= x
                          rest == MatchFrom(pattern, ti + 1, path, pi + k)
                      IN [ok |-> TRUE,
                          groups |-> <<SubSeq(path, pi, pi + k - 1)>>
                                     \o rest.groups]
         ELSE IF pi <= Len(path) /\ (tok.kind = "any" \/ tok.ch = path[pi])
              THEN MatchFrom(pattern, ti + 1, path, pi + 1)
              ELSE [ok |-> FALSE, groups |-> <<>>]

\* regexp.MatchString
MatchString(pattern, path) == MatchFrom(pattern, 1, path, 1).ok

\* regexp.FindStringSubmatch: nil, here <<>>, when the pattern does not
\* match; otherwise the whole match, then one entry per group (index 1 here
\* is index 0 in Go).
FindStringSubmatch(pattern, path) ==
    LET m == MatchFrom(pattern, 1, path, 1) IN
    IF ~m.ok THEN <<>>
    ELSE <<Str(path)>> \o [i \in 1..Len(m.groups) |-> Str(m.groups[i])]

\* regexp.SubexpNames: "" for the whole expression, then each group's name.
SubexpNames(pattern) ==
    <<"">> \o
    [i \in 1..Cardinality({ j \in 1..Len(pattern) : pattern[j].kind = "group" }) |->
        LET idx == { j \in 1..Len(pattern) : pattern[j].kind = "group" }
            nth == CHOOSE j \in idx : Cardinality({ x \in idx : x <= j }) = i
        IN pattern[nth].name]

\* extractParams: the named groups of the pattern, each mapped to the
\* substring it captured (a later group of the same name overwrites).
extractParams(path, pattern) ==
    LET matches == FindStringSubmatch(pattern, path)
        names   == SubexpNames(pattern)
        named   == { i \in 2..Len(names) : names[i] # "" }
    IN [n \in { names[i] : i \in named } |->
           matches[CHOOSE i \in named :
                      names[i] = n /\ \A j \in named : names[j] = n => j <= i]]

-----------------------------------------------------------------------------
(* Response building                                                       *)

\* The zero value of events.LambdaFunctionURLResponse.
ZeroResponse == [StatusCode |-> 0, Headers |-> <<>>, Body |-> ""]

\* json.Marshal on the values handlers return here: a Go string, nil, and a
\* channel, which json.Marshal rejects with an error and no bytes.
jsonMarshal(data) ==
    IF data = "chan" THEN [body |-> "", err |-> TRUE]
    ELSE IF data = "nil" THEN [body |-> "null", err |-> FALSE]
    ELSE [body |-> "\"" \o data \o "\"", err |-> FALSE]

\* An error envelope that drops the "Error: " prefix.
ErrorResponse_NoPrefix(err) ==
    [StatusCode |-> err.code, Headers |-> <<>>, Body |-> err.message]

\* An error envelope that always carries status 500.
ErrorResponse_Always500(err) ==
    [StatusCode |-> 500, Headers |-> <<>>, Body |-> "Error: " \o err.message]

ErrorResponse(err) ==
    [StatusCode |-> err.code,
     Headers    |-> <<>>,
     Body       |-> "Error: " \o err.message]

\* The error of json.Marshal is dropped; string(nil) is "".
\* A success envelope without the Content-Type header.
SuccessResponse_NoContentType(data) ==
    [StatusCode |-> 200, Headers |-> <<>>, Body |-> jsonMarshal(data).body]

\* A success envelope whose status is left at zero.
SuccessResponse_NoStatus(data) ==
    [StatusCode |-> 0,
     Headers    |-> ("Content-Type" :> "application/json"),
     Body       |-> jsonMarshal(data).body]

SuccessResponse(data) ==
    [StatusCode |-> 200,
     Headers    |-> ("Content-Type" :> "application/json"),
     Body       |-> jsonMarshal(data).body]

-----------------------------------------------------------------------------
(* CORS                                                                    *)

\* An origin check that takes any one-entry list for the wildcard.
isOriginAllowed_AnySingle(origins, origin) ==
    \/ Len(origins) = 1
    \/ \E i \in 1..Len(origins) : origins[i] = origin

isOriginAllowed(origins, origin) ==
    \/ Len(origins) = 1 /\ origins[1] = "*"
    \/ \E i \in 1..Len(origins) : origins[i] = origin

\* A preflight response that joins the lists with "," alone.
corsPreflightResponse_CommaOnly(origins, methods, headers, req) ==
    LET origin == MapGet(req.Headers, "origin") IN
    IF ~isOriginAllowed(origins, origin)
    THEN [StatusCode |-> 403, Headers |-> <<>>, Body |-> "Origin not allowed"]
    ELSE [StatusCode |-> 200,
          Headers    |-> ("Access-Control-Allow-Origin"  :> origin)
                      @@ ("Access-Control-Allow-Methods" :> Join(methods, ","))
                      @@ ("Access-Control-Allow-Headers" :> Join(headers, ",")),
          Body       |-> ""]

corsPreflightResponse(origins, methods, headers, req) ==
    LET origin == MapGet(req.Headers, "origin") IN
    IF ~isOriginAllowed(origins, origin)
    THEN [StatusCode |-> 403, Headers |-> <<>>, Body |-> "Origin not allowed"]
    ELSE [StatusCode |-> 200,
          Headers    |-> ("Access-Control-Allow-Origin"  :> origin)
                      @@ ("Access-Control-Allow-Methods" :> Join(methods, ", "))
                      @@ ("Access-Control-Allow-Headers" :> Join(headers, ", ")),
          Body       |-> ""]

\* A header attachment that echoes any origin sent, allowed or not.
attachCORSHeaders_EchoAny(origins, methods, headers, response, req) ==
    LET o      == MapGet(req.Headers, "origin")
        origin == IF o = "" THEN "*" ELSE o
    IN [response EXCEPT !.Headers =
            ("Access-Control-Allow-Origin"  :> origin)
         @@ ("Access-Control-Allow-Methods" :> Join(methods, ", "))
         @@ ("Access-Control-Allow-Headers" :> Join(headers, ", "))
         @@ response.Headers]

attachCORSHeaders(origins, methods, headers, response, req) ==
    LET o      == MapGet(req.Headers, "origin")
        origin == IF o = "" \/ ~isOriginAllowed(origins, o) THEN "*" ELSE o
    IN [response EXCEPT !.Headers =
            ("Access-Control-Allow-Origin"  :> origin)
         @@ ("Access-Control-Allow-Methods" :> Join(methods, ", "))
         @@ ("Access-Control-Allow-Headers" :> Join(headers, ", "))
         @@ response.Headers]

-----------------------------------------------------------------------------
(* Registration                                                            *)

NewRoute(method, path, handler) ==
    [Method   |-> method,
     Pattern  |-> buildPathPattern(path),
     Handler  |-> handler,
     Template |-> path]

-----------------------------------------------------------------------------
(* Dispatch                                                                *)

\* A scan that keeps going after a hit: the last matching route wins.
RECURSIVE MatchRoute_Last(_, _, _, _)
MatchRoute_Last(rts, i, method, path) ==
    LET hits == { j \in i..Len(rts) :
                    rts[j].Method = method /\ MatchString(rts[j].Pattern, path) }
    IN IF hits = {} THEN 0 ELSE CHOOSE j \in hits : \A k \in hits : k <= j

\* A scan that compares the method only.
RECURSIVE MatchRoute_MethodOnly(_, _, _, _)
MatchRoute_MethodOnly(rts, i, method, path) ==
    IF i > Len(rts) THEN 0
    ELSE IF rts[i].Method = method THEN i
         ELSE MatchRoute_MethodOnly(rts, i + 1, method, path)

\* The loop of HandleRequest up to its first hit: the index of the first
\* route, from i on, with the request's method and a matching pattern, or 0.
RECURSIVE MatchRoute(_, _, _, _)
MatchRoute(rts, i, method, path) ==
    IF i > Len(rts) THEN 0
    ELSE IF rts[i].Method = method /\ MatchString(rts[i].Pattern, path)
         THEN i
         ELSE MatchRoute(rts, i + 1, method, path)

\* The preflight test of HandleRequest.
IsPreflight_LowerCase(method) == method = "options"
IsPreflight(method) == method = "OPTIONS"

\* The error result of HandleRequest where a handler returned an error: nil.
ReturnedError_Propagate(result) ==
    IF result.kind = "error" THEN result.message ELSE "nil"
ReturnedError(result) == "nil"

\* One call of Router.HandleRequest.  result is what the handler returns if
\* one is invoked.  The outcome records the envelope, the error result, the
\* handler invocations made (route index, handler, params), the number of
\* routes the scan examined and whether attachCORSHeaders was called.
HandleRequestCall(rts, origins, methods, headers, req, result) ==
    LET path   == req.Path
        method == req.Method
        idx    == MatchRoute(rts, 1, method, path)
    IN
    IF IsPreflight(method)
    THEN [response |-> corsPreflightResponse(origins, methods, headers, req),
          err      |-> "nil",
          invoked  |-> <<>>,
          scanned  |-> 0,
          attached |-> FALSE]
    ELSE IF idx = 0
    THEN [response |-> attachCORSHeaders(origins, methods, headers,
                          [StatusCode |-> 404, Headers |-> <<>>,
                           Body |-> "Route not found"], req),
          err      |-> "nil",
          invoked  |-> <<>>,
          scanned  |-> Len(rts),
          attached |-> TRUE]
    ELSE LET call == [route   |-> idx,
                      handler |-> rts[idx].Handler,
                      params  |-> extractParams(path, rts[idx].Pattern),
                      result  |-> result]
             resp == SuccessResponse(result.data)
         IN
         IF result.kind = "error"
         THEN [response |-> ErrorResponse(result),
               err      |-> ReturnedError(result),
               invoked  |-> <<call>>,
               scanned  |-> idx,
               attached |-> FALSE]
         ELSE [response |-> attachCORSHeaders(origins, methods, headers,
                               IF resp.StatusCode = 0
                               THEN [StatusCode |-> 404, Headers |-> <<>>,
                                     Body |-> "Route not found"]
                               ELSE resp, req),
               err      |-> "nil",
               invoked  |-> <<call>>,
               scanned  |-> idx,
               attached |-> TRUE]

-----------------------------------------------------------------------------
(* State machine                                                           *)

NoRequest == [Method |-> "", Path |-> <<>>, Headers |-> <<>>]

\* No function has been applied on its own yet.
NoProbe == [fn |-> "none"]

\* NewRouter(), before any request has been handled.
Init ==
    /\ routes  = <<>>
    /\ Origins = <<"*">>
    /\ Methods = <<"*">>
    /\ Headers = <<"*">>
    /\ serving = FALSE
    /\ last    = [req      |-> NoRequest,
                  response |-> ZeroResponse,
                  err      |-> "nil",
                  invoked  |-> <<>>,
                  scanned  |-> 0,
                  attached |-> FALSE]
    /\ calls   = <<>>
    /\ probe   = NoProbe

\* The owner assigns the exported CORS fields before serving.
Configure ==
    /\ ~serving
    /\ \E c \in Configs :
          /\ Origins' = c.Origins
          /\ Methods' = c.Methods
          /\ Headers' = c.Headers
    /\ UNCHANGED <<routes, serving, last, calls, probe>>

\* A registration that puts the new route in front.
AddRoute_Prepend(method, path, handler) ==
    /\ ~serving
    /\ Len(routes) < MaxRoutes
    /\ routes' = <<NewRoute(method, path, handler)>> \o routes
    /\ UNCHANGED <<Origins, Methods, Headers, serving, last, calls, probe>>

\* Router.AddRoute
AddRoute(method, path, handler) ==
    /\ ~serving
    /\ Len(routes) < MaxRoutes
    /\ routes' = Append(routes, NewRoute(method, path, handler))
    /\ UNCHANGED <<Origins, Methods, Headers, serving, last, calls, probe>>

\* Go function values cannot be compared, so the handler passed to a
\* registration is identified by the registration it was passed to.
NewHandler == Len(routes) + 1

\* A direct call of AddRoute, with a method that has no shortcut.
AddRouteCall ==
    \E m \in OtherMethods, p \in RouteTemplates : AddRoute(m, p, NewHandler)

\* The shortcut methods.
Get    == \E p \in RouteTemplates : AddRoute("GET", p, NewHandler)
Post   == \E p \in RouteTemplates : AddRoute("POST", p, NewHandler)
Put    == \E p \in RouteTemplates : AddRoute("PUT", p, NewHandler)
Delete == \E p \in RouteTemplates : AddRoute("DELETE", p, NewHandler)

\* lambda.Start(router.HandleRequest): the runtime calls HandleRequest once
\* per request.
HandleRequest ==
    \E m \in RequestMethods, p \in RequestPaths,
       hd \in RequestHeaders, result \in HandlerResults :
       LET req == [Method |-> m, Path |-> p, Headers |-> hd]
           out == HandleRequestCall(routes, Origins, Methods, Headers, req, result)
       IN /\ serving' = TRUE
          /\ last' = [req      |-> req,
                      response |-> out.response,
                      err      |-> out.err,
                      invoked  |-> out.invoked,
                      scanned  |-> out.scanned,
                      attached |-> out.attached]
          /\ UNCHANGED <<routes, Origins, Methods, Headers, calls, probe>>

\* The Router's fields, the serving flag and the record of the last call.
TypeOK ==
    /\ Len(routes) <= MaxRoutes
    /\ \A i \in 1..Len(routes) :
          /\ routes[i].Pattern = buildPathPattern(routes[i].Template)
          /\ routes[i].Handler = i
    /\ [Origins |-> Origins, Methods |-> Methods, Headers |-> Headers]
          \in Configs
    /\ serving \in BOOLEAN
    /\ last.req = NoRequest <=> ~serving
    /\ last.err = "nil"
    /\ Len(last.invoked) <= 1
    /\ last.scanned \in 0..Len(routes)

Next ==
    \/ Configure
    \/ AddRouteCall
    \/ Get
    \/ Post
    \/ Put
    \/ Delete
    \/ HandleRequest

Spec == Init /\ [][Next]_vars

-----------------------------------------------------------------------------
(* Vocabulary of the properties                                            *)

ACAO == "Access-Control-Allow-Origin"
ACAM == "Access-Control-Allow-Methods"
ACAH == "Access-Control-Allow-Headers"

CORSHeaderNames == {ACAO, ACAM, ACAH}

\* The last request was a preflight / an ordinary request.
Preflight    == serving /\ last.req.Method = "OPTIONS"
NonPreflight == serving /\ last.req.Method # "OPTIONS"

RequestOrigin == MapGet(last.req.Headers, "origin")

\* The allow-list policy as the specification words it.
OriginsIsWildcard == Origins = <<"*">>
OriginPermitted ==
    OriginsIsWildcard \/ \E i \in 1..Len(Origins) : Origins[i] = RequestOrigin

\* The segments of a path: the substrings between the "/" separators.
RECURSIVE Split(_)
Split(cs) ==
    LET run == NonSlashRun(cs, 1) IN
    IF run = Len(cs) THEN <<cs>>
    ELSE <<SubSeq(cs, 1, run)>> \o Split(SubSeq(cs, run + 2, Len(cs)))

IsParamSegment(seg) == Len(seg) >= 2 /\ seg[1] = ":"

\* The routes whose pattern matches the last request's path, and those that
\* also have its method.
PathMatching == { i \in 1..Len(routes) :
                    MatchString(routes[i].Pattern, last.req.Path) }
Matching     == { i \in PathMatching : routes[i].Method = last.req.Method }

-----------------------------------------------------------------------------
(* C1 .. C10                                                               *)

\* C1: every envelope returned for a request whose method is not OPTIONS
\* carries the three Access-Control-Allow-* headers, whether a handler
\* returned a value, a handler returned an error, or no route matched.
C1_NonPreflightCarriesCORS ==
    NonPreflight => CORSHeaderNames \subseteq DOMAIN last.response.Headers

\* C2: the params passed to a handler map the name of every parameter
\* segment of the matched template to the request path's segment at that
\* position.
C2_ParamsHoldDeclaredNames ==
    \A c \in 1..Len(last.invoked) :
        LET call  == last.invoked[c]
            tsegs == Split(routes[call.route].Template)
            psegs == Split(last.req.Path)
        IN \A k \in 1..Len(tsegs) :
              IsParamSegment(tsegs[k]) =>
                 /\ Str(Tail(tsegs[k])) \in DOMAIN call.params
                 /\ call.params[Str(Tail(tsegs[k]))] = Str(psegs[k])

\* C3: with Origins = ["*"], every response's Access-Control-Allow-Origin
\* is the request's origin header when there is one and "*" when not.
C3_WildcardEchoesOrigin ==
    (serving /\ OriginsIsWildcard) =>
        /\ ACAO \in DOMAIN last.response.Headers
        /\ last.response.Headers[ACAO] =
              IF "origin" \in DOMAIN last.req.Headers
              THEN last.req.Headers["origin"] ELSE "*"

\* C4: a success value that cannot be serialized gives a 500 envelope.
C4_UnserializableIs500 ==
    \A c \in 1..Len(last.invoked) :
        LET r == last.invoked[c].result IN
        (r.kind = "value" /\ jsonMarshal(r.data).err)
            => last.response.StatusCode = 500

\* C5 as claimed: for any method, a request whose path no registered route
\* matches gets status 404 and body "Route not found".
C5_UnmatchedPathIs404 ==
    (serving /\ PathMatching = {}) =>
        /\ last.response.StatusCode = 404
        /\ last.response.Body = "Route not found"

\* C5 amended: for any method other than OPTIONS, a request whose path no
\* registered route matches gets status 404 and body "Route not found".
C5_UnmatchedPathIs404UnlessPreflight ==
    (NonPreflight /\ PathMatching = {}) =>
        /\ last.response.StatusCode = 404
        /\ last.response.Body = "Route not found"

C5_Witness ==
    /\ NonPreflight
    /\ PathMatching = {}
    /\ \E i \in 1..Len(routes) : routes[i].Method = last.req.Method
    /\ last.response.StatusCode = 404

\* The tables an OPTIONS request is replayed against: the empty one and
\* every one-route table, OPTIONS routes included.
ProbeTables ==
    {<<>>} \cup { <<NewRoute(m, t, 1)>> :
                     m \in RequestMethods, t \in RouteTemplates }

\* C6: an OPTIONS request scans no route and invokes no handler, and its
\* response is the same for every route table and every path.
C6_PreflightIgnoresRoutes ==
    Preflight =>
        /\ last.invoked = <<>>
        /\ last.scanned = 0
        /\ \A rts \in ProbeTables, p \in RequestPaths, r \in HandlerResults :
              HandleRequestCall(rts, Origins, Methods, Headers,
                                [last.req EXCEPT !.Path = p], r).response
                 = last.response

C6_Witness ==
    /\ Preflight
    /\ Matching # {}
    /\ last.invoked = <<>>
    /\ last.response.StatusCode = 200

\* C7: an OPTIONS request whose origin Origins does not allow gets status
\* 403, the plain-text rejection body and no Access-Control-Allow-* header.
C7_PreflightRejected ==
    (Preflight /\ ~OriginPermitted) =>
        /\ last.response.StatusCode = 403
        /\ last.response.Body = "Origin not allowed"
        /\ DOMAIN last.response.Headers \cap CORSHeaderNames = {}

C7_Witness ==
    /\ Preflight
    /\ Origins = <<"https://example.com">>
    /\ RequestOrigin = "https://evil.com"
    /\ last.response.StatusCode = 403

\* C8: an OPTIONS request whose origin is allowed gets status 200 with the
\* literal origin echoed and the full Methods and Headers lists joined with
\* ", ", whatever the preflight asked for.
C8_PreflightAccepted ==
    (Preflight /\ OriginPermitted) =>
        /\ last.response.StatusCode = 200
        /\ last.response.Headers =
              (ACAO :> RequestOrigin)
              @@ (ACAM :> Join(Methods, ", "))
              @@ (ACAH :> Join(Headers, ", "))

C8_Witness ==
    /\ Preflight
    /\ Origins = <<"https://example.com">>
    /\ MapGet(last.req.Headers, "access-control-request-method") = "DELETE"
    /\ last.response.StatusCode = 200
    /\ last.response.Headers[ACAO] = "https://example.com"
    /\ last.response.Headers[ACAM] = "GET, POST"
    /\ last.response.Headers[ACAH] = "Content-Type, Authorization"

\* C9: when the matched handler returns an error with code c and message m,
\* the envelope has status c and body "Error: " + m, no Content-Type, and
\* HandleRequest's own error result is nil.
C9_HandlerErrorEnvelope ==
    \A c \in 1..Len(last.invoked) :
        LET r == last.invoked[c].result IN
        r.kind = "error" =>
            /\ last.response.StatusCode = r.code
            /\ last.response.Body = "Error: " \o r.message
            /\ (r.code = 404 /\ r.message = "not found"
                   => last.response.Body = "Error: not found")
            /\ "Content-Type" \notin DOMAIN last.response.Headers
            /\ last.err = "nil"

C9_Witness ==
    /\ Len(last.invoked) = 1
    /\ last.invoked[1].result.kind = "error"
    /\ last.response.StatusCode = 404
    /\ last.response.Body = "Error: not found"

\* C10: the handler invoked for a request is that of the first route, in
\* registration order, with the request's method and a matching pattern;
\* a later route that matches too is never invoked.
C10_FirstMatchWins ==
    NonPreflight =>
        IF Matching = {} THEN last.invoked = <<>>
        ELSE LET first == CHOOSE i \in Matching : \A j \in Matching : i <= j
             IN /\ Len(last.invoked) = 1
                /\ last.invoked[1].route = first
                /\ last.invoked[1].handler = routes[first].Handler

C10_Witness ==
    /\ NonPreflight
    /\ Len(routes) >= 2
    /\ routes[1].Method = routes[2].Method
    /\ routes[1].Template = routes[2].Template
    /\ routes[1].Handler # routes[2].Handler
    /\ Matching = {1, 2}
    /\ Len(last.invoked) = 1
    /\ last.invoked[1].handler = routes[1].Handler

-----------------------------------------------------------------------------
(* C11, C13, C15                                                           *)

\* C11 as claimed: for every registered route, a request with its method and
\* a path its pattern matches invokes that route's handler and returns what
\* json.Marshal made of the handler's value, with status 200 and
\* Content-Type application/json.
C11_EveryRouteServesItsValue ==
    serving =>
        \A i \in Matching :
            /\ Len(last.invoked) = 1
            /\ last.invoked[1].handler = routes[i].Handler
            /\ last.invoked[1].result.kind = "value" =>
                  /\ last.response.StatusCode = 200
                  /\ last.response.Body =
                        jsonMarshal(last.invoked[1].result.data).body
                  /\ MapGet(last.response.Headers, "Content-Type")
                        = "application/json"

\* C11 amended: a request whose method is not OPTIONS invokes the handler of
\* the first registered route that has its method and matches its path, and
\* whatever value that handler returns comes back with status 200,
\* Content-Type application/json and the bytes json.Marshal made of it as
\* body (the value's JSON; no bytes for a value json.Marshal rejects).  No
\* request is served by a route registered for OPTIONS or by a route that an
\* earlier matching route shadows.
C11_FirstRouteServesItsValue ==
    serving =>
        /\ \A c \in 1..Len(last.invoked) :
              /\ routes[last.invoked[c].route].Method # "OPTIONS"
              /\ last.invoked[c].route \in Matching
              /\ \A j \in Matching : last.invoked[c].route <= j
        /\ NonPreflight =>
              \A i \in Matching :
                  (\A j \in Matching : i <= j) =>
                      /\ Len(last.invoked) = 1
                      /\ last.invoked[1].handler = routes[i].Handler
                      /\ last.invoked[1].result.kind = "value" =>
                            /\ last.response.StatusCode = 200
                            /\ last.response.Body =
                                  jsonMarshal(last.invoked[1].result.data).body
                            /\ last.invoked[1].result.data = "ok" =>
                                  last.response.Body = "\"ok\""
                            /\ last.invoked[1].result.data = "chan" =>
                                  last.response.Body = ""
                            /\ MapGet(last.response.Headers, "Content-Type")
                                  = "application/json"

C11_Witness ==
    /\ NonPreflight
    /\ Len(routes) = 2
    /\ routes[1].Method = "OPTIONS"
    /\ routes[1].Template = routes[2].Template
    /\ Matching = {2}
    /\ Len(last.invoked) = 1
    /\ last.invoked[1].handler = 2
    /\ last.invoked[1].result.data = "ok"
    /\ last.response.StatusCode = 200
    /\ last.response.Body = "\"ok\""
    /\ MapGet(last.response.Headers, "Content-Type") = "application/json"

\* C13: where attachCORSHeaders has run, Access-Control-Allow-Origin is "*"
\* if the request has no origin or one Origins does not allow, and the
\* literal origin otherwise; the Methods and Headers lists are attached
\* whole, joined with ", "; Content-Type, if set before, is kept.
C13_AttachedHeaders ==
    (serving /\ last.attached) =>
        /\ last.req.Method # "OPTIONS"
        /\ last.response.Headers[ACAO] =
              IF RequestOrigin = "" \/ ~OriginPermitted
              THEN "*" ELSE RequestOrigin
        /\ last.response.Headers[ACAM] = Join(Methods, ", ")
        /\ last.response.Headers[ACAH] = Join(Headers, ", ")
        /\ last.invoked # <<>> =>
              last.response.Headers["Content-Type"] = "application/json"
        /\ DOMAIN last.response.Headers \subseteq
              CORSHeaderNames \cup {"Content-Type"}

C13_Witness ==
    /\ serving
    /\ last.attached
    /\ Origins = <<"https://example.com">>
    /\ RequestOrigin = "https://evil.com"
    /\ last.invoked # <<>>
    /\ last.response.Headers[ACAO] = "*"
    /\ last.response.Headers[ACAM] = "GET, POST"
    /\ last.response.Headers["Content-Type"] = "application/json"

\* C15: whatever the request and whatever the handler returns, HandleRequest
\* returns an envelope and a nil error.
C15_NeverAFault ==
    serving =>
        /\ last.err = "nil"
        /\ DOMAIN last.response = {"StatusCode", "Headers", "Body"}
        /\ last.response.StatusCode \in Nat

C15_Witness ==
    /\ serving
    /\ Len(last.invoked) = 1
    /\ last.invoked[1].result.kind = "error"
    /\ last.err = "nil"
    /\ last.response.StatusCode = last.invoked[1].result.code

-----------------------------------------------------------------------------
(* The matcher on its own                                                  *)

StringsFrom(alphabet, n) ==
    { <<"/">> \o w : w \in UNION { [1..k -> alphabet] : k \in 0..(n - 1) } }

\* buildPathPattern(template)
CompileTemplate ==
    /\ probe.fn \in {"none", "buildPathPattern"}
    /\ \E t \in StringsFrom(TemplateAlphabet, MaxPathLen) :
          probe' = [fn       |-> "buildPathPattern",
                    template |-> t,
                    pattern  |-> buildPathPattern(t)]
    /\ UNCHANGED <<routes, Origins, Methods, Headers, serving, last, calls>>

\* route.Pattern.MatchString(path) on the compiled pattern.
MatchPath ==
    /\ probe.fn = "buildPathPattern"
    /\ \E p \in StringsFrom(PathAlphabet, MaxPathLen) :
          probe' = [fn       |-> "MatchString",
                    template |-> probe.template,
                    pattern  |-> probe.pattern,
                    path     |-> p,
                    matched  |-> MatchString(probe.pattern, p)]
    /\ UNCHANGED <<routes, Origins, Methods, Headers, serving, last, calls>>

NextMatch ==
    \/ CompileTemplate
    \/ MatchPath

SpecMatch == Init /\ [][NextMatch]_vars

\* Same number of segments, and every literal segment of the template equal
\* to the path's segment at its position.
SegmentsAgree(template, path) ==
    LET tsegs == Split(template)
        psegs == Split(path)
    IN /\ Len(tsegs) = Len(psegs)
       /\ \A k \in 1..Len(tsegs) :
             ~IsParamSegment(tsegs[k]) => tsegs[k] = psegs[k]

\* C12: the matcher compiled from a template matches a path if and only if
\* the two have the same number of segments and every literal segment of
\* the template equals the path's segment at that position.
C12_MatchIffSegmentsAgree ==
    probe.fn = "MatchString" =>
        (probe.matched <=> SegmentsAgree(probe.template, probe.path))

-----------------------------------------------------------------------------
(* isOriginAllowed on its own                                              *)

OriginLists ==
    UNION { [1..k -> OriginEntries] : k \in 0..MaxOrigins }

\* The owner assigns router.Origins.
SetOrigins ==
    /\ probe.fn = "none"
    /\ \E o \in OriginLists : Origins' = o
    /\ UNCHANGED <<routes, Methods, Headers, serving, last, calls, probe>>

\* r.isOriginAllowed(origin)
CheckOrigin ==
    /\ \E o \in ProbeOrigins :
          probe' = [fn      |-> "isOriginAllowed",
                    origin  |-> o,
                    allowed |-> isOriginAllowed(Origins, o)]
    /\ UNCHANGED <<routes, Origins, Methods, Headers, serving, last, calls>>

NextOrigin ==
    \/ SetOrigins
    \/ CheckOrigin

SpecOrigin == Init /\ [][NextOrigin]_vars

\* C17: isOriginAllowed(origin) is true for every origin when Origins is
\* ["*"]; otherwise it is true exactly when origin equals one of the entries
\* of Origins, character for character, so an empty list allows nothing.
C17_OriginAllowedIffListed ==
    probe.fn = "isOriginAllowed" =>
        /\ probe.allowed <=>
              \/ Origins = <<"*">>
              \/ \E i \in 1..Len(Origins) : Origins[i] = probe.origin
        /\ Origins = <<>> => ~probe.allowed

C17_Witness ==
    /\ probe.fn = "isOriginAllowed"
    /\ Origins = <<"https://example.com", "*">>
    /\ probe.origin = "https://EXAMPLE.com"
    /\ ~probe.allowed

-----------------------------------------------------------------------------
(* C18                                                                     *)

\* The route a registration step has just added.
Added == routes'[Len(routes')]

\* C18: every AddRoute / Get / Post / Put / Delete call appends exactly one
\* route at the end of the table and leaves the earlier entries as they
\* were, so the table holds one entry per call in call order; a (method,
\* template) already in the table is stored again; each shortcut is
\* AddRoute with its verb.
C18_RegistrationAppends ==
    /\ [][ /\ (AddRouteCall \/ Get \/ Post \/ Put \/ Delete) <=> routes' # routes
           /\ routes' # routes =>
                 /\ Len(routes') = Len(routes) + 1
                 /\ SubSeq(routes', 1, Len(routes)) = routes
                 /\ Added.Handler = Len(routes) + 1
                 /\ Added.Pattern = buildPathPattern(Added.Template)
           /\ Get    => Added.Method = "GET"
           /\ Post   => Added.Method = "POST"
           /\ Put    => Added.Method = "PUT"
           /\ Delete => Added.Method = "DELETE"
         ]_vars
    /\ [](\A i \in 1..Len(routes) : routes[i].Handler = i)
    /\ []((~serving /\ routes # <<>> /\ Len(routes) < MaxRoutes) =>
             ENABLED AddRoute(routes[1].Method, routes[1].Template, NewHandler))

C18_Witness ==
    /\ Len(routes) = 2
    /\ routes[1].Method = "PUT"
    /\ routes[2].Method = "PUT"
    /\ routes[1].Template = T_usersId
    /\ routes[2].Template = T_usersId
    /\ routes[1].Handler = 1
    /\ routes[2].Handler = 2

-----------------------------------------------------------------------------
(* Concurrent serving: HandleRequest step by step                          *)

\* Tables a finished registration leaves: a route registered twice, and a
\* parameter route followed by an OPTIONS route.
ConcTables ==
    { <<NewRoute("GET", T_a, 1), NewRoute("GET", T_a, 2)>>,
      <<NewRoute("GET", T_usersId, 1), NewRoute("OPTIONS", T_a, 2)>> }

ConcRequests ==
    { [Method |-> "GET", Path |-> T_a,
       Headers |-> ("origin" :> "https://example.com")],
      [Method |-> "GET", Path |-> P_users42, Headers |-> NoHeaders],
      [Method |-> "OPTIONS", Path |-> T_a,
       Headers |-> ("origin" :> "https://evil.com")] }

\* The handler result a call holds before any handler has run.
NoResult == [kind |-> "none", data |-> "nil", code |-> 0, message |-> ""]

IdleFrame ==
    [pc |-> "idle", req |-> NoRequest, i |-> 0, invoked |-> <<>>,
     result |-> NoResult, ret |-> ZeroResponse]

\* `var response` is a local of HandleRequest: each call has its own.
ResponseVar_Shared(k) == 1
ResponseVar(k) == k

\* After a handler's success the loop is left by `break`.
ScanAfterSuccess_Continue == "scan"
ScanAfterSuccess == "notfound"

Frame(k)    == calls.frames[k]
Response(k) == calls.responses[ResponseVar(k)]

SetFrame(k, f) == [calls EXCEPT !.frames[k] = f]
SetFrameAndResponse(k, f, r) ==
    [calls EXCEPT !.frames[k] = f, !.responses[ResponseVar(k)] = r]

RouterUnchanged ==
    UNCHANGED <<routes, Origins, Methods, Headers, serving, last, probe>>

\* Registration and configuration are over; no call is in flight.
InitConc ==
    /\ routes \in ConcTables
    /\ \E c \in Configs :
          /\ Origins = c.Origins
          /\ Methods = c.Methods
          /\ Headers = c.Headers
    /\ serving = TRUE
    /\ last    = [req      |-> NoRequest,
                  response |-> ZeroResponse,
                  err      |-> "nil",
                  invoked  |-> <<>>,
                  scanned  |-> 0,
                  attached |-> FALSE]
    /\ calls   = [frames    |-> [k \in 1..MaxCalls |-> IdleFrame],
                  responses |-> [k \in 1..MaxCalls |-> ZeroResponse]]
    /\ probe   = NoProbe

\* Entry: the zero response, path and method read from the request.
Begin(k) ==
    /\ Frame(k).pc = "idle"
    /\ \E req \in ConcRequests :
          calls' = SetFrameAndResponse(k,
                      [IdleFrame EXCEPT !.pc = "start", !.req = req],
                      ZeroResponse)
    /\ RouterUnchanged

\* if method == "OPTIONS" { return r.corsPreflightResponse(req), nil }
PreflightCheck(k) ==
    /\ Frame(k).pc = "start"
    /\ calls' =
          IF IsPreflight(Frame(k).req.Method)
          THEN SetFrame(k, [Frame(k) EXCEPT
                   !.pc  = "done",
                   !.ret = corsPreflightResponse(Origins, Methods, Headers,
                                                 Frame(k).req)])
          ELSE SetFrame(k, [Frame(k) EXCEPT !.pc = "scan", !.i = 1])
    /\ RouterUnchanged

\* One iteration of the loop over r.routes, up to the handler call.
ScanRoute(k) ==
    /\ Frame(k).pc = "scan"
    /\ LET f == Frame(k) IN
       calls' =
          IF f.i > Len(routes)
          THEN SetFrame(k, [f EXCEPT !.pc = "notfound"])
          ELSE IF routes[f.i].Method = f.req.Method
                  /\ MatchString(routes[f.i].Pattern, f.req.Path)
               THEN SetFrame(k, [f EXCEPT !.pc = "handler"])
               ELSE SetFrame(k, [f EXCEPT !.i = f.i + 1])
    /\ RouterUnchanged

\* extractParams, the handler call, and what follows its result.
InvokeHandler(k) ==
    /\ Frame(k).pc = "handler"
    /\ \E result \in MoreHandlerResults :
          LET f    == Frame(k)
              call == [route   |-> f.i,
                       handler |-> routes[f.i].Handler,
                       params  |-> extractParams(f.req.Path, routes[f.i].Pattern),
                       result  |-> result]
          IN calls' =
                IF result.kind = "error"
                THEN SetFrame(k, [f EXCEPT
                         !.pc      = "done",
                         !.invoked = Append(f.invoked, call),
                         !.result  = result,
                         !.ret     = ErrorResponse(result)])
                ELSE SetFrameAndResponse(k,
                         [f EXCEPT !.pc      = ScanAfterSuccess,
                                   !.i       = f.i + 1,
                                   !.invoked = Append(f.invoked, call),
                                   !.result  = result],
                         SuccessResponse(result.data))
    /\ RouterUnchanged

\* if response.StatusCode == 0 { response = 404 "Route not found" }
RouteNotFound(k) ==
    /\ Frame(k).pc = "notfound"
    /\ calls' =
          IF Response(k).StatusCode = 0
          THEN SetFrameAndResponse(k, [Frame(k) EXCEPT !.pc = "attach"],
                   [StatusCode |-> 404, Headers |-> <<>>,
                    Body |-> "Route not found"])
          ELSE SetFrame(k, [Frame(k) EXCEPT !.pc = "attach"])
    /\ RouterUnchanged

\* r.attachCORSHeaders(&response, req); return response, nil
AttachAndReturn(k) ==
    /\ Frame(k).pc = "attach"
    /\ LET r == attachCORSHeaders(Origins, Methods, Headers,
                                  Response(k), Frame(k).req)
       IN calls' = SetFrameAndResponse(k,
                      [Frame(k) EXCEPT !.pc = "done", !.ret = r], r)
    /\ RouterUnchanged

\* The hosting runtime takes the envelope; the call is over.
Deliver(k) ==
    /\ Frame(k).pc = "done"
    /\ calls' = SetFrame(k, IdleFrame)
    /\ RouterUnchanged

NextConc ==
    \E k \in 1..MaxCalls :
        \/ Begin(k)
        \/ PreflightCheck(k)
        \/ ScanRoute(k)
        \/ InvokeHandler(k)
        \/ RouteNotFound(k)
        \/ AttachAndReturn(k)
        \/ Deliver(k)

SpecConc == InitConc /\ [][NextConc]_vars

-----------------------------------------------------------------------------
(* C14, C16, C19, C20                                                      *)

CallIds == 1..MaxCalls

\* The call has returned its envelope.
Returned(k) == Frame(k).pc = "done"

\* The routes with the call's method whose pattern matches its path.
MatchingOf(k) ==
    { i \in 1..Len(routes) :
        /\ routes[i].Method = Frame(k).req.Method
        /\ MatchString(routes[i].Pattern, Frame(k).req.Path) }

\* C14: with registration finished, every HandleRequest call returns, under
\* every interleaving with the other calls, the envelope it returns when it
\* runs alone, and request handling changes neither the route table nor
\* Origins, Methods, Headers.
C14_ConcurrentCallsIndependent ==
    /\ [](\A k \in CallIds :
            Returned(k) =>
               Frame(k).ret =
                  HandleRequestCall(routes, Origins, Methods, Headers,
                                    Frame(k).req, Frame(k).result).response)
    /\ [][ /\ routes'  = routes
           /\ Origins' = Origins
           /\ Methods' = Methods
           /\ Headers' = Headers ]_vars

C14_Witness ==
    /\ Returned(1)
    /\ Frame(2).pc = "attach"
    /\ Frame(1).req # Frame(2).req
    /\ Frame(1).ret.StatusCode = 200
    /\ Response(2).StatusCode = 404
    /\ Frame(1).ret # Response(2)

\* C16 as claimed: a handler that returns an error gives a response with
\* status 500 and the error message in the body.
C16_HandlerErrorIs500 ==
    \A k \in CallIds :
        (Returned(k) /\ Frame(k).result.kind = "error") =>
            /\ Frame(k).ret.StatusCode = 500
            /\ Frame(k).ret.Body = "Error: " \o Frame(k).result.message

\* C16 amended: a handler that returns an error gives a response with the
\* error's own code as status, 500 exactly when that code is 500, and the
\* error message in the body after "Error: ".
C16_HandlerErrorIsItsCode ==
    \A k \in CallIds :
        (Returned(k) /\ Frame(k).result.kind = "error") =>
            /\ Frame(k).ret.StatusCode = Frame(k).result.code
            /\ Frame(k).ret.StatusCode = 500 <=> Frame(k).result.code = 500
            /\ Frame(k).ret.Body = "Error: " \o Frame(k).result.message

C16_Witness ==
    \E k \in CallIds :
        /\ Returned(k)
        /\ Frame(k).result.kind = "error"
        /\ Frame(k).result.code = 500
        /\ Frame(k).ret.StatusCode = 500
        /\ Frame(k).ret.Body = "Error: Something went wrong"

\* C19: one HandleRequest call invokes at most one handler: for a request
\* other than OPTIONS the handler of the first matching route, once, the
\* scan ending there whether it returned a value or an error; none when no
\* route matches or the request is OPTIONS.
C19_AtMostOneHandler ==
    \A k \in CallIds :
        LET f == Frame(k) IN
        /\ Len(f.invoked) <= 1
        /\ f.invoked # <<>> =>
              /\ f.pc \in {"notfound", "attach", "done"}
              /\ f.req.Method # "OPTIONS"
              /\ f.invoked[1].route \in MatchingOf(k)
              /\ \A j \in MatchingOf(k) : f.invoked[1].route <= j
        /\ (Returned(k) /\ f.req.Method # "OPTIONS" /\ MatchingOf(k) # {})
              => Len(f.invoked) = 1
        /\ (Returned(k) /\ f.req.Method = "OPTIONS") => f.invoked = <<>>

C19_Witness ==
    \E k \in CallIds :
        /\ Returned(k)
        /\ MatchingOf(k) = {1, 2}
        /\ Len(Frame(k).invoked) = 1
        /\ Frame(k).invoked[1].route = 1
        /\ Frame(k).invoked[1].result.kind = "value"

NotFoundEnvelope(r) == r.StatusCode = 404 /\ r.Body = "Route not found"

\* C20: the 404 "Route not found" envelope is returned only when no handler
\* was invoked; once a handler ran, the envelope is its success envelope,
\* status 200, or its error envelope.
C20_NotFoundOnlyWithoutHandler ==
    \A k \in CallIds :
        LET f == Frame(k) IN
        Returned(k) =>
            /\ NotFoundEnvelope(f.ret) => f.invoked = <<>>
            /\ f.invoked # <<>> =>
                  IF f.result.kind = "error"
                  THEN /\ f.ret.StatusCode = f.result.code
                       /\ f.ret.Body = "Error: " \o f.result.message
                  ELSE /\ f.ret.StatusCode = 200
                       /\ f.ret.Body = jsonMarshal(f.result.data).body
                       /\ "Content-Type" \in DOMAIN f.ret.Headers

C20_Witness ==
    \E k \in CallIds :
        /\ Returned(k)
        /\ Len(Frame(k).invoked) = 1
        /\ Frame(k).result.kind = "error"
        /\ Frame(k).result.code = 0
        /\ Frame(k).ret.StatusCode = 0
        /\ ~NotFoundEnvelope(Frame(k).ret)

====
